---- MODULE Spec2Model ----
(***************************************************************************)
(* Model of WhisperLinux/whisper_cli.py: the transcript merger             *)
(* (merge_text), the streaming session (capture_streaming), the clip       *)
(* session (capture_clip) and the configuration check of main.             *)
(*                                                                         *)
(* A text is a sequence of one-character strings, so that strip, split and *)
(* join are computed character by character as Python computes them.       *)
(* An audio byte is modelled by its offset in the source stream.           *)
(***************************************************************************)
EXTENDS Integers, Sequences, FiniteSets, TLC

VARIABLES
    pc,              \* where the coordinating thread is
    mode,            \* "streaming" | "clip" | "none" (main, prompt_choice)
    chunk_seconds,   \* streaming policy, in ticks of 1/TicksPerSecond s
    overlap_seconds, \* streaming policy, in ticks of 1/TicksPerSecond s
    chunk_bytes,     \* capture_streaming local
    overlap_bytes,   \* capture_streaming local
    stop_flag,       \* StopFlag._event
    proc,            \* the parec process: "none" | "running" | "terminated" | "reaped"
    src_pos,         \* bytes the audio source has delivered so far
    buffer,          \* capture_streaming local: bytearray
    pcm,             \* capture_clip local: bytearray
    chunk,           \* capture_streaming local: the window being recognized
    windows,         \* history: every window cut, in order
    files,           \* audio containers that exist on disk
    calls,           \* history: audio handed to the recognizer, in order
    fragments,       \* history: texts returned by run_transcribe, in order
    confirmed_text,  \* capture_streaming local: the transcript
    printed,         \* what was printed to the console, in order
    exc,             \* exception propagating out of the session, or "none"
    prev,            \* merge_text argument (merger specification)
    new,             \* merge_text argument (merger specification)
    merged,          \* merge_text result (merger specification)
    remerged         \* result of merging `new` into `merged` once more

vars == <<pc, mode, chunk_seconds, overlap_seconds, chunk_bytes, overlap_bytes,
          stop_flag, proc, src_pos, buffer, pcm, chunk, windows, files, calls,
          fragments, confirmed_text, printed, exc, prev, new, merged, remerged>>

sessionVars == <<mode, chunk_seconds, overlap_seconds, chunk_bytes, overlap_bytes,
                 stop_flag, proc, src_pos, buffer, pcm, chunk, windows, files,
                 calls, fragments, confirmed_text, printed, exc>>

mergeVars == <<prev, new, merged, remerged>>

----------------------------------------------------------------------------
(* Bounds of the model *)

\* most words in an enumerated merge_text argument
MaxWords == 7
\* arguments of up to this many words are enumerated exhaustively
MaxAllWords == 6
\* most words in an enumerated argument that carries extra whitespace
MaxPadWords == 2
\* the prompts of main answer in multiples of 1/TicksPerSecond seconds
TicksPerSecond == 3
\* the longest chunk length and overlap entered, in ticks
MaxSecondsTicks == 6
\* SAMPLE_RATE * SAMPLE_WIDTH (32000 in the source), scaled down with the windows
BYTES_PER_SECOND == 2
\* READ_CHUNK_BYTES (4096 in the source), scaled down with the windows
READ_CHUNK_BYTES == 2
\* the audio source delivers at most this many bytes before it ends
MaxStream == 6
\* the audio source ends once this many windows have been cut
MaxWindows == 3

----------------------------------------------------------------------------
(* Text: Python str operations used by merge_text *)

SP == " "
NL == "\n"

\* characters str.strip() and str.split() treat as whitespace
Whitespace == {SP, NL}

Min(a, b) == IF a <= b THEN a ELSE b

Max(a, b) == IF a >= b THEN a ELSE b

\* s[i:j] for 0 <= i, j (Python slice on a sequence, 0-based, end exclusive)
Slice(s, i, j) == SubSeq(s, Min(i, Len(s)) + 1, Min(j, Len(s)))

\* s[-k:] for k >= 1
LastK(s, k) == Slice(s, Max(Len(s) - k, 0), Len(s))

\* s[:-k] for k >= 1
DropLastK(s, k) == Slice(s, 0, Max(Len(s) - k, 0))

\* s[:k]
FirstK(s, k) == Slice(s, 0, k)

RECURSIVE lstrip(_)
lstrip(s) ==
    IF s # <<>> /\ Head(s) \in Whitespace THEN lstrip(Tail(s)) ELSE s

RECURSIVE rstrip(_)
rstrip(s) ==
    IF s # <<>> /\ s[Len(s)] \in Whitespace
    THEN rstrip(SubSeq(s, 1, Len(s) - 1))
    ELSE s

\* str.strip()
strip(s) == rstrip(lstrip(s))

\* str.split() with no separator: maximal runs of non-whitespace characters;
\* `word` is the run being read, `acc` the words already completed
RECURSIVE split_from(_, _, _)
split_from(s, word, acc) ==
    IF s = <<>>
    THEN IF word = <<>> THEN acc ELSE Append(acc, word)
    ELSE IF Head(s) \in Whitespace
         THEN split_from(Tail(s), <<>>, IF word = <<>> THEN acc ELSE Append(acc, word))
         ELSE split_from(Tail(s), Append(word, Head(s)), acc)

split(s) == split_from(s, <<>>, <<>>)

\* sep.join(words)
RECURSIVE join(_, _)
join(sep, words) ==
    IF words = <<>> THEN <<>>
    ELSE IF Len(words) = 1 THEN words[1]
    ELSE words[1] \o sep \o join(sep, Tail(words))

----------------------------------------------------------------------------
(* merge_text *)

\* the literal 6 of max_check
OverlapWordLimit == 6

\* mutant of max_check: the search stops one word short
max_check_five(prev_words, new_words) ==
    Min(OverlapWordLimit - 1, Min(Len(prev_words), Len(new_words)))

\* mutant of max_check: the search reaches one word further
max_check_seven(prev_words, new_words) ==
    Min(OverlapWordLimit + 1, Min(Len(prev_words), Len(new_words)))

max_check(prev_words, new_words) ==
    Min(OverlapWordLimit, Min(Len(prev_words), Len(new_words)))

\* mutant of merge_loop: the shortest matching overlap is taken (the loop
\* counting up from 1 to k)
merge_loop_shortest(p, n, prev_words, new_words, k) ==
    LET ks == {j \in 1..k : LastK(prev_words, j) = FirstK(new_words, j)}
    IN  IF ks = {}
        THEN strip(p \o <<SP>> \o n)
        ELSE LET j == CHOOSE x \in ks : \A y \in ks : x <= y
             IN  join(<<SP>>, DropLastK(prev_words, j) \o new_words)

\* mutant of merge_loop: the slice of prev_words is cut one word too early
RECURSIVE merge_loop_cuts_early(_, _, _, _, _)
merge_loop_cuts_early(p, n, prev_words, new_words, k) ==
    IF k <= 0
    THEN strip(p \o <<SP>> \o n)
    ELSE IF LastK(prev_words, k) = FirstK(new_words, k)
         THEN join(<<SP>>, DropLastK(prev_words, Min(k + 1, Len(prev_words))) \o new_words)
         ELSE merge_loop_cuts_early(p, n, prev_words, new_words, k - 1)

\* the for loop of merge_text from k down to 1, then the fall-through return;
\* p and n are the stripped arguments
RECURSIVE merge_loop(_, _, _, _, _)
merge_loop(p, n, prev_words, new_words, k) ==
    IF k <= 0
    THEN strip(p \o <<SP>> \o n)
    ELSE IF LastK(prev_words, k) = FirstK(new_words, k)
         THEN join(<<SP>>, DropLastK(prev_words, k) \o new_words)
         ELSE merge_loop(p, n, prev_words, new_words, k - 1)

merge_words(p, n, prev_words, new_words) ==
    merge_loop(p, n, prev_words, new_words, max_check(prev_words, new_words))

merge_stripped(p, n) ==
    IF p = <<>> THEN n
    ELSE IF n = <<>> THEN p
    ELSE merge_words(p, n, split(p), split(n))

\* mutant of merge_text: the arguments are not stripped
merge_text_unstripped(a, b) == merge_stripped(a, b)

merge_text(a, b) == merge_stripped(strip(a), strip(b))

----------------------------------------------------------------------------
(* Inputs of the merger specification *)

\* the one-character words the enumerated arguments are built from
Vocabulary == {<<"a">>, <<"b">>}

RECURSIVE WordSeqs(_)
WordSeqs(n) ==
    IF n = 0 THEN {<<>>}
    ELSE LET shorter == WordSeqs(n - 1)
         IN  shorter \cup
             {Append(ws, w) : ws \in {x \in shorter : Len(x) = n - 1}, w \in Vocabulary}

\* the text with `lead` before, `sep` between the words and `trail` after
Render(lead, sep, trail, ws) == lead \o join(sep, ws) \o trail

\* one word repeated, then another word repeated, n words at most
BlockSeqs(n) ==
    {[i \in 1..(a + b) |-> IF i <= a THEN x ELSE y] :
        x \in Vocabulary, y \in Vocabulary,
        a \in 0..n, b \in 0..n}

PlainTexts ==
    {join(<<SP>>, ws) :
        ws \in WordSeqs(MaxAllWords) \cup {bs \in BlockSeqs(MaxWords) : Len(bs) <= MaxWords}}

PaddedTexts ==
    {Render(lead, sep, trail, ws) :
        lead \in {<<>>, <<NL, SP>>},
        sep \in {<<SP, SP>>, <<NL>>},
        trail \in {<<>>, <<SP>>},
        ws \in WordSeqs(MaxPadWords)}

hello == <<"h", "e", "l", "l", "o">>
world == <<"w", "o", "r", "l", "d">>
how == <<"h", "o", "w">>
are == <<"a", "r", "e">>
you == <<"y", "o", "u">>
today == <<"t", "o", "d", "a", "y">>
the == <<"t", "h", "e">>
quick == <<"q", "u", "i", "c", "k">>
brown == <<"b", "r", "o", "w", "n">>
fox == <<"f", "o", "x">>
jumps == <<"j", "u", "m", "p", "s">>

TheQuickBrownFox == join(<<SP>>, <<the, quick, brown, fox>>)
BrownFoxJumps == join(<<SP>>, <<brown, fox, jumps>>)
TheQuickBrownFoxJumps == join(<<SP>>, <<the, quick, brown, fox, jumps>>)

HelloWorld == join(<<SP>>, <<hello, world>>)

ExampleTexts == {TheQuickBrownFox, BrownFoxJumps, HelloWorld}

MergeInputs == PlainTexts \cup PaddedTexts \cup ExampleTexts

----------------------------------------------------------------------------
(* The merger specification: one call of merge_text on enumerated arguments *)

SessionIdle ==
    /\ mode = "none"
    /\ chunk_seconds = 0
    /\ overlap_seconds = 0
    /\ chunk_bytes = 0
    /\ overlap_bytes = 0
    /\ stop_flag = FALSE
    /\ proc = "none"
    /\ src_pos = 0
    /\ buffer = <<>>
    /\ pcm = <<>>
    /\ chunk = <<>>
    /\ windows = <<>>
    /\ files = {}
    /\ calls = <<>>
    /\ fragments = <<>>
    /\ confirmed_text = <<>>
    /\ printed = <<>>
    /\ exc = "none"

MergeInit ==
    /\ pc = "merge_call"
    /\ prev \in MergeInputs
    /\ new \in MergeInputs
    /\ merged = <<>>
    /\ remerged = <<>>
    /\ SessionIdle

MergeCall ==
    /\ pc = "merge_call"
    /\ merged' = merge_text(prev, new)
    /\ pc' = "merge_return"
    /\ UNCHANGED <<prev, new, remerged>>
    /\ UNCHANGED sessionVars

\* the recognizer returns the same fragment again: merge_text(merged, new)
MergeAgain ==
    /\ pc = "merge_return"
    /\ remerged' = merge_text(merged, new)
    /\ pc' = "merge_again_return"
    /\ UNCHANGED <<prev, new, merged>>
    /\ UNCHANGED sessionVars

MergeNext ==
    \/ MergeCall
    \/ MergeAgain

MergeSpec == MergeInit /\ [][MergeNext]_vars

----------------------------------------------------------------------------
(* Properties of merge_text, stated on the word sequences of its arguments *)

\* the word sequences P and N of the call in progress
P == split(strip(prev))
N == split(strip(new))

\* the overlaps the claims speak of: k in 1..min(limit, |P|, |N|) with the last
\* k words of ps equal, word for word, to the first k words of ns
Overlaps(ps, ns, limit) ==
    {k \in 1..Min(limit, Min(Len(ps), Len(ns))) :
        \A i \in 1..k : ps[Len(ps) - k + i] = ns[i]}

Largest(ks) == CHOOSE k \in ks : \A j \in ks : j <= k

\* words written one after the other, one space between two words
RECURSIVE SingleSpaced(_)
SingleSpaced(ws) ==
    IF ws = <<>> THEN <<>>
    ELSE IF Len(ws) = 1 THEN ws[1]
    ELSE SingleSpaced(SubSeq(ws, 1, Len(ws) - 1)) \o <<SP>> \o ws[Len(ws)]

BothNonEmpty == P # <<>> /\ N # <<>>

\* C1: when both arguments hold a word and some k in 1..min(6,|P|,|N|) has the
\* last k words of P equal to the first k words of N, the result is P without
\* its last k' words followed by all of N, single-spaced, k' the largest such
\* k; merge("the quick brown fox", "brown fox jumps") is
\* "the quick brown fox jumps".
C1_LargestOverlapRemoved ==
    pc = "merge_return" =>
        /\ (BothNonEmpty /\ Overlaps(P, N, 6) # {}) =>
              LET k == Largest(Overlaps(P, N, 6))
              IN  merged = SingleSpaced(SubSeq(P, 1, Len(P) - k) \o N)
        /\ (prev = TheQuickBrownFox /\ new = BrownFoxJumps) =>
              merged = TheQuickBrownFoxJumps

\* a call where two overlaps of different length match and P keeps a word
C1_Witness ==
    /\ pc = "merge_return"
    /\ BothNonEmpty
    /\ Cardinality(Overlaps(P, N, 6)) >= 2
    /\ Len(P) > Largest(Overlaps(P, N, 6))
    /\ Len(split(merged)) = Len(P) + Len(N) - Largest(Overlaps(P, N, 6))

\* C2: when both arguments hold a word and no k in 1..min(6,|P|,|N|) has the
\* last k words of P equal to the first k words of N, the result is the first
\* argument, one space, the second argument (both trimmed), and its words are
\* those of P followed by those of N; an overlap of 7 words is not looked for.
C2_FallbackConcatenates ==
    (pc = "merge_return" /\ BothNonEmpty /\ Overlaps(P, N, 6) = {}) =>
        /\ merged = strip(prev) \o <<SP>> \o strip(new)
        /\ split(merged) = P \o N

\* a call whose only overlap is 7 words long, returned as plain concatenation
C2_Witness ==
    /\ pc = "merge_return"
    /\ Overlaps(P, N, 6) = {}
    /\ 7 \in Overlaps(P, N, 7)
    /\ split(merged) = P \o N
    /\ Len(split(merged)) = Len(P) + Len(N)

----------------------------------------------------------------------------
(* The recognizer: what the external command can print on success *)

HelloWorldHow == join(<<SP>>, <<hello, world, how>>)
WorldHowAreYou == join(<<SP>>, <<world, how, are, you>>)
AreYouToday == join(<<SP>>, <<are, you, today>>)

\* result.stdout of a recognizer run that returned status 0
RecognizerOutputs ==
    {<<SP>> \o HelloWorldHow \o <<NL>>,
     WorldHowAreYou \o <<NL>>,
     AreYouToday,
     <<NL>>}

----------------------------------------------------------------------------
(* Audio bytes and bytearray slices *)

\* the source stream's bytes a .. b-1, each byte standing for its offset
Bytes(a, b) == [i \in 1..(b - a) |-> a + i - 1]

\* s[i:] where i may be negative (Python counts a negative index from the end)
SliceFrom(s, i) ==
    IF i >= 0 THEN Slice(s, i, Len(s)) ELSE Slice(s, Max(Len(s) + i, 0), Len(s))

\* int(seconds * SAMPLE_RATE * SAMPLE_WIDTH), seconds given in ticks
seconds_to_bytes(ticks) == (ticks * BYTES_PER_SECOND) \div TicksPerSecond

\* mutant of need_more: a buffer of exactly chunk_bytes is not cut yet
need_more_inclusive(buf, cb) == Len(buf) <= cb

\* mutant of need_more: the comparison is off by one byte
need_more_off_by_one(buf, cb) == Len(buf) + 1 < cb

\* len(buffer) < chunk_bytes: the loop continues without cutting
need_more(buf, cb) == Len(buf) < cb

\* mutant of cut_window: the newest chunk_bytes bytes are taken
cut_window_newest(buf, cb) == LastK(buf, cb)

\* chunk = bytes(buffer[:chunk_bytes])
cut_window(buf, cb) == Slice(buf, 0, cb)

\* mutant of cut_rest: the whole window is dropped, no overlap kept
cut_rest_no_overlap(buf, cb, ob) == SliceFrom(buf, cb)

\* buffer = buffer[chunk_bytes - overlap_bytes:]
cut_rest(buf, cb, ob) == SliceFrom(buf, cb - ob)

\* mutant of next_transcript: the arguments of merge_text are swapped
next_transcript_swapped(confirmed, text) == merge_text(text, confirmed)

\* confirmed_text = merge_text(confirmed_text, text)
next_transcript(confirmed, text) == merge_text(confirmed, text)

\* mutant of loop_continues: the flag is not consulted
loop_ignores_flag(flag) == TRUE

\* while not stop_flag.is_set()
loop_continues(flag) == ~flag

\* how many bytes a read may return: 0 is end of stream
ReadSizes ==
    IF Len(windows) >= MaxWindows
    THEN {0}
    ELSE 0..Min(READ_CHUNK_BYTES, MaxStream - src_pos)

Partial(text) == [kind |-> "partial", text |-> text]
Final(text) == [kind |-> "final", text |-> text]
ClipText(text) == [kind |-> "clip", text |-> text]
Message(m) == [kind |-> m, text |-> <<>>]

----------------------------------------------------------------------------
(* main *)

Init ==
    /\ pc = "main"
    /\ SessionIdle
    /\ prev = <<>>
    /\ new = <<>>
    /\ merged = <<>>
    /\ remerged = <<>>

\* mode == "clip": capture_clip is called
MainClip ==
    /\ pc = "main"
    /\ mode' = "clip"
    /\ pc' = "clip_start"
    /\ UNCHANGED <<chunk_seconds, overlap_seconds, chunk_bytes, overlap_bytes,
                   stop_flag, proc, src_pos, buffer, pcm, chunk, windows, files,
                   calls, fragments, confirmed_text, printed, exc>>
    /\ UNCHANGED mergeVars

\* mutant of overlap_rejected: an overlap equal to the chunk length passes
overlap_rejected_if_longer(os, cs) == os > cs

\* if overlap_seconds >= chunk_seconds
overlap_rejected(os, cs) == os >= cs

\* mode == "streaming": the two prompt_float answers, then the overlap check
MainStreaming ==
    /\ pc = "main"
    /\ \E cs \in TicksPerSecond..MaxSecondsTicks, os \in 0..MaxSecondsTicks :
        /\ mode' = "streaming"
        /\ chunk_seconds' = cs
        /\ overlap_seconds' = os
        /\ IF overlap_rejected(os, cs)
           THEN /\ printed' = Append(printed, Message("overlap_must_be_smaller"))
                /\ pc' = "exit_1"
           ELSE /\ printed' = printed
                /\ pc' = "streaming_start"
    /\ UNCHANGED <<chunk_bytes, overlap_bytes, stop_flag, proc, src_pos, buffer,
                   pcm, chunk, windows, files, calls, fragments, confirmed_text, exc>>
    /\ UNCHANGED mergeVars

----------------------------------------------------------------------------
(* capture_streaming *)

\* up to the try statement: the stop flag, the SIGINT handler, parec, the sizes
StreamingStart ==
    /\ pc = "streaming_start"
    /\ stop_flag' = FALSE
    /\ proc' = "running"
    /\ chunk_bytes' = seconds_to_bytes(chunk_seconds)
    /\ overlap_bytes' = seconds_to_bytes(overlap_seconds)
    /\ buffer' = <<>>
    /\ confirmed_text' = <<>>
    /\ pc' = "loop"
    /\ UNCHANGED <<mode, chunk_seconds, overlap_seconds, src_pos, pcm, chunk,
                   windows, files, calls, fragments, printed, exc>>
    /\ UNCHANGED mergeVars

\* mutant of HandleSigint: the handler also raises (as the default SIGINT
\* handler does), so the interrupted call is abandoned for the finally clause
HandleSigintRaises ==
    /\ mode = "streaming"
    /\ pc \in {"loop", "read", "transcribe", "finally", "wait"}
    /\ stop_flag' = TRUE
    /\ pc' = IF pc \in {"loop", "read", "transcribe"} THEN "finally" ELSE pc
    /\ exc' = IF pc \in {"loop", "read", "transcribe"} THEN "KeyboardInterrupt" ELSE exc
    /\ UNCHANGED <<mode, chunk_seconds, overlap_seconds, chunk_bytes,
                   overlap_bytes, proc, src_pos, buffer, pcm, chunk, windows, files,
                   calls, fragments, confirmed_text, printed>>
    /\ UNCHANGED mergeVars

\* mutant of HandleSigint: a second interrupt clears the flag
HandleSigintToggles ==
    /\ mode = "streaming"
    /\ pc \in {"loop", "read", "transcribe", "finally", "wait"}
    /\ stop_flag' = ~stop_flag
    /\ UNCHANGED <<pc, mode, chunk_seconds, overlap_seconds, chunk_bytes,
                   overlap_bytes, proc, src_pos, buffer, pcm, chunk, windows, files,
                   calls, fragments, confirmed_text, printed, exc>>
    /\ UNCHANGED mergeVars

\* handle_sigint, run between two bytecodes of the coordinating thread or while
\* it is blocked in a read or in the recognizer call (which then resumes)
HandleSigint ==
    /\ mode = "streaming"
    /\ pc \in {"loop", "read", "transcribe", "finally", "wait"}
    /\ stop_flag' = TRUE
    /\ UNCHANGED <<pc, mode, chunk_seconds, overlap_seconds, chunk_bytes,
                   overlap_bytes, proc, src_pos, buffer, pcm, chunk, windows, files,
                   calls, fragments, confirmed_text, printed, exc>>
    /\ UNCHANGED mergeVars

\* the while condition
LoopCheck ==
    /\ pc = "loop"
    /\ pc' = IF loop_continues(stop_flag) THEN "read" ELSE "finally"
    /\ UNCHANGED sessionVars
    /\ UNCHANGED mergeVars

\* proc.stdout.read returns; the iteration runs on until it blocks again
\* (in the recognizer call) or comes back to the while condition
ReadReturns ==
    /\ pc = "read"
    /\ \E n \in ReadSizes :
        LET data == Bytes(src_pos, src_pos + n)
            buf == buffer \o data
            wav_path == Len(windows) + 1
        IN  /\ src_pos' = src_pos + n
            /\ IF n = 0
               THEN /\ pc' = "finally"
                    /\ UNCHANGED <<buffer, chunk, windows, files, calls>>
               ELSE IF need_more(buf, chunk_bytes)
               THEN /\ pc' = "loop"
                    /\ buffer' = buf
                    /\ UNCHANGED <<chunk, windows, files, calls>>
               ELSE /\ chunk' = cut_window(buf, chunk_bytes)
                    /\ buffer' = cut_rest(buf, chunk_bytes, overlap_bytes)
                    /\ windows' = Append(windows, chunk')
                    /\ files' = files \cup {wav_path}
                    /\ calls' = Append(calls, chunk')
                    /\ pc' = "transcribe"
    /\ UNCHANGED <<mode, chunk_seconds, overlap_seconds, chunk_bytes, overlap_bytes,
                   stop_flag, proc, pcm, fragments, confirmed_text, printed, exc>>
    /\ UNCHANGED mergeVars

\* run_transcribe returns (status 0): unlink, merge, print the partial
TranscribeReturns ==
    /\ pc = "transcribe"
    /\ \E stdout \in RecognizerOutputs :
        LET text == strip(stdout)
        IN  /\ files' = files \ {Len(windows)}
            /\ fragments' = Append(fragments, text)
            /\ confirmed_text' = next_transcript(confirmed_text, text)
            /\ printed' = Append(printed, Partial(confirmed_text'))
    /\ pc' = "loop"
    /\ UNCHANGED <<mode, chunk_seconds, overlap_seconds, chunk_bytes, overlap_bytes,
                   stop_flag, proc, src_pos, buffer, pcm, chunk, windows, calls, exc>>
    /\ UNCHANGED mergeVars

\* run_transcribe raises RuntimeError (non-zero status): control leaves the
\* try block for the finally clause with the exception pending
TranscribeRaises ==
    /\ pc = "transcribe"
    /\ exc' = "RuntimeError"
    /\ pc' = "finally"
    /\ UNCHANGED <<mode, chunk_seconds, overlap_seconds, chunk_bytes, overlap_bytes,
                   stop_flag, proc, src_pos, buffer, pcm, chunk, windows, files,
                   calls, fragments, confirmed_text, printed>>
    /\ UNCHANGED mergeVars

\* finally: proc.terminate()
Terminate ==
    /\ pc = "finally"
    /\ proc' = "terminated"
    /\ pc' = "wait"
    /\ UNCHANGED <<mode, chunk_seconds, overlap_seconds, chunk_bytes, overlap_bytes,
                   stop_flag, src_pos, buffer, pcm, chunk, windows, files, calls,
                   fragments, confirmed_text, printed, exc>>
    /\ UNCHANGED mergeVars

\* mutant of WaitReturns: what is left in the buffer is padded and recognized
\* before the final transcription is printed
WaitReturnsFlushing ==
    /\ pc = "wait"
    /\ proc' = "reaped"
    /\ calls' = IF buffer # <<>> THEN Append(calls, buffer) ELSE calls
    /\ IF exc = "none"
       THEN /\ printed' = Append(printed, Final(confirmed_text))
            /\ pc' = "done"
       ELSE /\ printed' = printed
            /\ pc' = "raised"
    /\ UNCHANGED <<mode, chunk_seconds, overlap_seconds, chunk_bytes, overlap_bytes,
                   stop_flag, src_pos, buffer, pcm, chunk, windows, files,
                   fragments, confirmed_text, exc>>
    /\ UNCHANGED mergeVars

\* proc.wait(timeout=2) returns; a pending exception propagates, otherwise the
\* final transcription is printed
WaitReturns ==
    /\ pc = "wait"
    /\ proc' = "reaped"
    /\ IF exc = "none"
       THEN /\ printed' = Append(printed, Final(confirmed_text))
            /\ pc' = "done"
       ELSE /\ printed' = printed
            /\ pc' = "raised"
    /\ UNCHANGED <<mode, chunk_seconds, overlap_seconds, chunk_bytes, overlap_bytes,
                   stop_flag, src_pos, buffer, pcm, chunk, windows, files, calls,
                   fragments, confirmed_text, exc>>
    /\ UNCHANGED mergeVars

\* proc.wait(timeout=2) raises TimeoutExpired: parec is still running
WaitTimesOut ==
    /\ pc = "wait"
    /\ exc' = "TimeoutExpired"
    /\ pc' = "raised"
    /\ UNCHANGED <<mode, chunk_seconds, overlap_seconds, chunk_bytes, overlap_bytes,
                   stop_flag, proc, src_pos, buffer, pcm, chunk, windows, files,
                   calls, fragments, confirmed_text, printed>>
    /\ UNCHANGED mergeVars

----------------------------------------------------------------------------
(* capture_clip *)

\* up to the try statement: the stop flag, the wait_stop thread, parec
ClipStart ==
    /\ pc = "clip_start"
    /\ stop_flag' = FALSE
    /\ proc' = "running"
    /\ pcm' = <<>>
    /\ pc' = "clip_loop"
    /\ UNCHANGED <<mode, chunk_seconds, overlap_seconds, chunk_bytes, overlap_bytes,
                   src_pos, buffer, chunk, windows, files, calls, fragments,
                   confirmed_text, printed, exc>>
    /\ UNCHANGED mergeVars

\* wait_stop: the operator pressed ENTER; the thread sets the flag and ends
WaitStop ==
    /\ mode = "clip"
    /\ pc \notin {"main", "clip_start"}
    /\ ~stop_flag
    /\ stop_flag' = TRUE
    /\ UNCHANGED <<pc, mode, chunk_seconds, overlap_seconds, chunk_bytes,
                   overlap_bytes, proc, src_pos, buffer, pcm, chunk, windows, files,
                   calls, fragments, confirmed_text, printed, exc>>
    /\ UNCHANGED mergeVars

\* the while condition
ClipLoopCheck ==
    /\ pc = "clip_loop"
    /\ pc' = IF loop_continues(stop_flag) THEN "clip_read" ELSE "clip_finally"
    /\ UNCHANGED sessionVars
    /\ UNCHANGED mergeVars

\* proc.stdout.read returns
ClipReadReturns ==
    /\ pc = "clip_read"
    /\ \E n \in 0..Min(READ_CHUNK_BYTES, MaxStream - src_pos) :
        /\ src_pos' = src_pos + n
        /\ IF n = 0
           THEN /\ pc' = "clip_finally"
                /\ pcm' = pcm
           ELSE /\ pc' = "clip_loop"
                /\ pcm' = pcm \o Bytes(src_pos, src_pos + n)
    /\ UNCHANGED <<mode, chunk_seconds, overlap_seconds, chunk_bytes, overlap_bytes,
                   stop_flag, proc, buffer, chunk, windows, files, calls, fragments,
                   confirmed_text, printed, exc>>
    /\ UNCHANGED mergeVars

\* finally: proc.terminate()
ClipTerminate ==
    /\ pc = "clip_finally"
    /\ proc' = "terminated"
    /\ pc' = "clip_wait"
    /\ UNCHANGED <<mode, chunk_seconds, overlap_seconds, chunk_bytes, overlap_bytes,
                   stop_flag, src_pos, buffer, pcm, chunk, windows, files, calls,
                   fragments, confirmed_text, printed, exc>>
    /\ UNCHANGED mergeVars

\* mutant of ClipWaitReturns: the `if not pcm` test is missing
ClipWaitReturnsUnchecked ==
    /\ pc = "clip_wait"
    /\ proc' = "reaped"
    /\ files' = files \cup {"clip"}
    /\ calls' = Append(calls, pcm)
    /\ printed' = Append(printed, Message("transcribing"))
    /\ pc' = "clip_transcribe"
    /\ UNCHANGED <<mode, chunk_seconds, overlap_seconds, chunk_bytes, overlap_bytes,
                   stop_flag, src_pos, buffer, pcm, chunk, windows, fragments,
                   confirmed_text, exc>>
    /\ UNCHANGED mergeVars

\* proc.wait(timeout=2) returns; then either "No audio captured." or the
\* recording is written and the recognizer is started on it
ClipWaitReturns ==
    /\ pc = "clip_wait"
    /\ proc' = "reaped"
    /\ IF pcm = <<>>
       THEN /\ printed' = Append(printed, Message("no_audio_captured"))
            /\ pc' = "done"
            /\ UNCHANGED <<files, calls>>
       ELSE /\ files' = files \cup {"clip"}
            /\ calls' = Append(calls, pcm)
            /\ printed' = Append(printed, Message("transcribing"))
            /\ pc' = "clip_transcribe"
    /\ UNCHANGED <<mode, chunk_seconds, overlap_seconds, chunk_bytes, overlap_bytes,
                   stop_flag, src_pos, buffer, pcm, chunk, windows, fragments,
                   confirmed_text, exc>>
    /\ UNCHANGED mergeVars

\* proc.wait(timeout=2) raises TimeoutExpired
ClipWaitTimesOut ==
    /\ pc = "clip_wait"
    /\ exc' = "TimeoutExpired"
    /\ pc' = "raised"
    /\ UNCHANGED <<mode, chunk_seconds, overlap_seconds, chunk_bytes, overlap_bytes,
                   stop_flag, proc, src_pos, buffer, pcm, chunk, windows, files,
                   calls, fragments, confirmed_text, printed>>
    /\ UNCHANGED mergeVars

\* run_transcribe returns (status 0): the text is printed
ClipTranscribeReturns ==
    /\ pc = "clip_transcribe"
    /\ \E stdout \in RecognizerOutputs :
        LET text == strip(stdout)
        IN  /\ fragments' = Append(fragments, text)
            /\ printed' = Append(printed, ClipText(text))
    /\ pc' = "done"
    /\ UNCHANGED <<mode, chunk_seconds, overlap_seconds, chunk_bytes, overlap_bytes,
                   stop_flag, proc, src_pos, buffer, pcm, chunk, windows, files,
                   calls, confirmed_text, exc>>
    /\ UNCHANGED mergeVars

\* run_transcribe raises RuntimeError (non-zero status)
ClipTranscribeRaises ==
    /\ pc = "clip_transcribe"
    /\ exc' = "RuntimeError"
    /\ pc' = "raised"
    /\ UNCHANGED <<mode, chunk_seconds, overlap_seconds, chunk_bytes, overlap_bytes,
                   stop_flag, proc, src_pos, buffer, pcm, chunk, windows, files,
                   calls, fragments, confirmed_text, printed>>
    /\ UNCHANGED mergeVars

----------------------------------------------------------------------------
(* The program *)

\* the steps of the coordinating thread when parec exits once terminated
ThreadStep ==
    \/ MainClip
    \/ MainStreaming
    \/ StreamingStart
    \/ LoopCheck
    \/ ReadReturns
    \/ TranscribeReturns
    \/ TranscribeRaises
    \/ Terminate
    \/ WaitReturns
    \/ ClipStart
    \/ ClipLoopCheck
    \/ ClipReadReturns
    \/ ClipTerminate
    \/ ClipWaitReturns
    \/ ClipTranscribeReturns
    \/ ClipTranscribeRaises

\* the interrupt handler and the operator thread
StopStep ==
    \/ HandleSigint
    \/ WaitStop

Next ==
    \/ ThreadStep
    \/ StopStep
    \/ WaitTimesOut
    \/ ClipWaitTimesOut

Spec == Init /\ [][Next]_vars

\* The program when every read returns, every recognizer run ends and parec
\* exits within the timeout once terminated: the coordinating thread, never
\* blocked for ever, always takes its next step.
LiveNext ==
    \/ ThreadStep
    \/ StopStep

LiveSpec == Init /\ [][LiveNext]_vars /\ WF_vars(ThreadStep)

\* the program and the merger side by side: a behaviour is either a run of main
\* or one call of merge_text on enumerated arguments
AllInit ==
    \/ Init
    \/ MergeInit

AllNext ==
    \/ Next
    \/ MergeNext

AllSpec == AllInit /\ [][AllNext]_vars

----------------------------------------------------------------------------
(* Properties of the streaming session *)

\* the session states of the specification, read off the control position
SessionState ==
    CASE pc \in {"main", "streaming_start"} -> "Idle"
      [] pc \in {"loop", "read", "transcribe"} -> "Running"
      [] pc \in {"finally", "wait"} -> "Draining"
      [] pc = "done" -> "Stopped"
      [] pc = "exit_1" -> "Rejected"
      [] OTHER -> "Aborted"

Streaming == mode = "streaming"

\* merge(...merge(merge("", t1), t2)..., tn)
RECURSIVE LeftFold(_)
LeftFold(ts) ==
    IF ts = <<>> THEN <<>>
    ELSE merge_text(LeftFold(SubSeq(ts, 1, Len(ts) - 1)), ts[Len(ts)])

HelloWorldHowAreYouToday == join(<<SP>>, <<hello, world, how, are, you, today>>)

ExampleFragments == <<HelloWorldHow, WorldHowAreYou, AreYouToday>>

\* the transcript reports printed so far
Reports(kind) == {i \in 1..Len(printed) : printed[i].kind = kind}

\* C3: with texts t1..tn returned for the windows recognized so far, the
\* transcript, the i-th partial report and the final report are the left fold
\* of merge_text over t1..ti (resp. t1..tn); the fragments "hello world how",
\* "world how are you", "are you today" end in "hello world how are you today".
C3_TranscriptIsLeftFold ==
    Streaming =>
        /\ confirmed_text = LeftFold(fragments)
        /\ \A i \in Reports("partial") :
              /\ i <= Len(fragments)
              /\ printed[i].text = LeftFold(SubSeq(fragments, 1, i))
        /\ \A i \in Reports("final") : printed[i].text = LeftFold(fragments)
        /\ (fragments = ExampleFragments /\ pc = "done") =>
              printed[Len(printed)] = Final(HelloWorldHowAreYouToday)

\* the example session, stopped after its three windows
C3_Witness ==
    /\ Streaming
    /\ pc = "done"
    /\ fragments = ExampleFragments
    /\ Len(printed) = 4
    /\ printed[3] = Partial(HelloWorldHowAreYouToday)
    /\ printed[4] = Final(HelloWorldHowAreYouToday)

\* a recognizer call ends without a fragment
RecognizerFailed ==
    /\ pc = "transcribe"
    /\ pc' # pc
    /\ fragments' = fragments

\* C4: a recognizer failure for one window does not abort the streaming
\* session: the transcript is left as it was and the loop goes on.
C4_RecognizerErrorKeepsRunning ==
    [][(Streaming /\ RecognizerFailed) =>
          (pc' = "loop" /\ confirmed_text' = confirmed_text /\ exc' = "none")]_vars

\* the buffer right after the append of the read that just returned
Appended == buffer \o Bytes(src_pos, src_pos')

\* C5: when the buffer holds at least chunk_bytes after an append, the window
\* cut is the first chunk_bytes bytes of the buffer and the buffer afterwards
\* is the window's last overlap_bytes bytes followed by the bytes buffered
\* beyond the window; from exactly chunk_bytes it keeps exactly overlap_bytes,
\* and with overlap_bytes = 0 it keeps nothing of the window.
C5_CutWindowKeepsOverlap ==
    [][(Streaming /\ pc = "read" /\ src_pos' > src_pos
            /\ Len(Appended) >= chunk_bytes) =>
          /\ Len(windows') = Len(windows) + 1
          /\ windows'[Len(windows')] = chunk'
          /\ Len(chunk') = chunk_bytes
          /\ chunk' = SubSeq(Appended, 1, chunk_bytes)
          /\ buffer' = SubSeq(chunk', chunk_bytes - overlap_bytes + 1, chunk_bytes)
                          \o SubSeq(Appended, chunk_bytes + 1, Len(Appended))
          /\ (Len(Appended) = chunk_bytes => Len(buffer') = overlap_bytes)
          /\ (overlap_bytes = 0 =>
                \A i \in 1..Len(buffer') : \A j \in 1..chunk_bytes :
                    buffer'[i] # chunk'[j])]_vars

\* a window was just cut from a buffer that held more than the window: the
\* buffer keeps a non-empty overlap and one byte beyond it
C5_Witness ==
    /\ Streaming
    /\ pc = "transcribe"
    /\ overlap_bytes > 0
    /\ overlap_bytes < chunk_bytes
    /\ Len(buffer) = overlap_bytes + 1
    /\ buffer[1] = chunk[chunk_bytes - overlap_bytes + 1]

\* C6: while the bytes appended in total are fewer than chunk_bytes, no window
\* has been cut, no recognition call has been made, and the buffer holds
\* exactly the bytes appended so far.
C6_NoWindowBelowChunkBytes ==
    (Streaming /\ SessionState \in {"Running", "Draining", "Stopped", "Aborted"}
        /\ src_pos < chunk_bytes) =>
        /\ windows = <<>>
        /\ calls = <<>>
        /\ files = {}
        /\ buffer = Bytes(0, src_pos)

\* several appends that stay one byte short of a window
C6_Witness ==
    /\ Streaming
    /\ pc = "loop"
    /\ src_pos > READ_CHUNK_BYTES
    /\ src_pos = chunk_bytes - 1
    /\ Len(buffer) = src_pos
    /\ windows = <<>>

\* C7: a streaming session that has left Running and whose capture process
\* has been terminated and waited for is Stopped and has reported the final
\* transcript exactly once.
C7_EveryExitReportsFinal ==
    (Streaming /\ proc = "reaped") =>
        /\ SessionState = "Stopped"
        /\ Cardinality(Reports("final")) = 1

\* C8: outside the recognition step of the window it was made for, no
\* temporary audio container exists, on the error paths too.
C8_NoContainerOutlivesItsIteration ==
    (Streaming /\ pc # "transcribe") => files = {}

\* C9: at the iteration check the loop starts a read exactly when the stop
\* flag is unset; a read that returned bytes keeps the session Running; a
\* zero-length read goes straight to Draining, flag set or not, and from
\* Draining on nothing is read, appended, cut or recognized.
C9_LoopExitConditions ==
    [][Streaming =>
          /\ (pc = "loop" /\ pc' # pc) =>
                /\ pc' = IF stop_flag THEN "finally" ELSE "read"
                /\ SessionState' = IF stop_flag THEN "Draining" ELSE "Running"
          /\ (pc = "read" /\ pc' # pc /\ src_pos' > src_pos) =>
                SessionState' = "Running"
          /\ (pc = "read" /\ pc' # pc /\ src_pos' = src_pos) =>
                /\ SessionState' = "Draining"
                /\ UNCHANGED <<buffer, chunk, windows, calls, fragments,
                               confirmed_text, printed>>
          /\ SessionState \in {"Draining", "Stopped", "Aborted"} =>
                /\ UNCHANGED <<src_pos, buffer, chunk, windows, calls, fragments>>
                /\ SessionState' # "Running"]_vars

\* the loop was left by a zero-length read while the stop flag was unset
C9_Witness ==
    /\ Streaming
    /\ SessionState = "Draining"
    /\ ~stop_flag
    /\ exc = "none"
    /\ windows # <<>>

\* C10: setting the stop flag changes nothing but the flag, whatever call is
\* in flight; a read or a recognition in flight when the flag is set completes
\* as it would have (bytes appended, fragment merged and reported); the loop is
\* left for the flag only at the iteration check, and from then on nothing is
\* read, cut or recognized.
C10_StopIsCooperative ==
    [][/\ (stop_flag' # stop_flag /\ pc \notin {"streaming_start", "clip_start"}) =>
              UNCHANGED <<pc, proc, src_pos, buffer, pcm, chunk, windows, files,
                          calls, fragments, confirmed_text, printed, exc>>
       /\ (Streaming /\ stop_flag /\ pc = "read" /\ src_pos' > src_pos) =>
              /\ SessionState' = "Running"
              /\ IF Len(Appended) < chunk_bytes
                 THEN buffer' = Appended
                 ELSE /\ pc' = "transcribe"
                      /\ calls' = Append(calls, SubSeq(Appended, 1, chunk_bytes))
       /\ (Streaming /\ stop_flag /\ pc = "transcribe" /\ Len(fragments') > Len(fragments)) =>
              /\ confirmed_text' = merge_text(confirmed_text, fragments'[Len(fragments')])
              /\ printed' = Append(printed, Partial(confirmed_text'))
              /\ pc' = "loop"
       /\ (mode = "clip" /\ stop_flag /\ pc = "clip_read" /\ src_pos' > src_pos) =>
              /\ pcm' = pcm \o Bytes(src_pos, src_pos')
              /\ pc' = "clip_loop"
       /\ (Streaming /\ SessionState = "Running" /\ SessionState' # "Running") =>
              \/ pc = "loop" /\ stop_flag
              \/ pc = "read" /\ src_pos' = src_pos
              \/ pc = "transcribe" /\ exc' # "none"
       /\ (Streaming /\ stop_flag /\ SessionState # "Running") =>
              UNCHANGED <<src_pos, buffer, windows, calls, fragments, confirmed_text>>]_vars

\* the flag is set and the recognition of a window is in flight: the flag was
\* unset at this iteration's check, so it was set during the read or the call
C10_Witness ==
    /\ Streaming
    /\ stop_flag
    /\ pc = "transcribe"
    /\ Len(windows) >= 2
    /\ Len(fragments) = Len(windows) - 1

\* the stream offset one past the last window cut (0 when none was cut)
LastWindowEnd ==
    IF windows = <<>> THEN 0
    ELSE windows[Len(windows)][Len(windows[Len(windows)])] + 1

\* C11: in streaming mode every recognition call is for a full window cut
\* while Running; once the session has left Running no recognition call is
\* made, so the bytes left in the buffer are never recognized and add nothing
\* to the transcript.
C11_TailIsNeverRecognized ==
    [][Streaming =>
          /\ calls' = windows'
          /\ \A i \in 1..Len(calls') : Len(calls'[i]) = chunk_bytes'
          /\ Len(fragments') <= Len(calls')
          /\ SessionState # "Running" =>
                UNCHANGED <<calls, windows, fragments, confirmed_text, buffer>>
          /\ pc' = "done" =>
                /\ printed'[Len(printed')] = Final(LeftFold(fragments'))
                /\ Len(fragments') = Len(windows')]_vars

\* a stopped session whose buffer still holds audio delivered after the end
\* of the last window, less than a window of it
C11_Witness ==
    /\ Streaming
    /\ pc = "done"
    /\ windows # <<>>
    /\ calls = windows
    /\ src_pos > LastWindowEnd
    /\ Len(buffer) > overlap_bytes
    /\ Len(buffer) < chunk_bytes

Clip == mode = "clip"

\* C12: in a clip session no recognition call is made and no container is
\* written while capture is going on; once capture has ended, the recognizer
\* has been called exactly once, on all the bytes captured, if at least one
\* byte was captured, and otherwise "no audio captured" is reported, no
\* container is written and no call is made.
C12_ClipRecognizesOnceIfAudio ==
    Clip =>
        /\ pcm = Bytes(0, src_pos)
        /\ proc # "reaped" => (calls = <<>> /\ files = {} /\ fragments = <<>>)
        /\ (proc = "reaped" /\ pcm # <<>>) =>
              /\ calls = <<pcm>>
              /\ files = {"clip"}
              /\ Reports("no_audio_captured") = {}
              /\ Len(fragments) <= 1
        /\ (proc = "reaped" /\ pcm = <<>>) =>
              /\ calls = <<>>
              /\ files = {}
              /\ fragments = <<>>
              /\ printed = <<Message("no_audio_captured")>>
              /\ pc = "done"

\* a clip of several reads, recognized once after capture ended
C12_Witness ==
    /\ Clip
    /\ pc = "done"
    /\ Len(pcm) > READ_CHUNK_BYTES
    /\ calls = <<pcm>>
    /\ Len(fragments) = 1
    /\ printed[Len(printed)] = ClipText(fragments[1])

\* C13: a policy with overlap_seconds >= chunk_seconds is rejected before the
\* session starts: the program exits with status 1, the capture process is
\* never started, nothing is read, no window is cut and no recognition call
\* is made.
C13_InvalidPolicyRejected ==
    (Streaming /\ overlap_seconds >= chunk_seconds) =>
        /\ pc = "exit_1"
        /\ SessionState = "Rejected"
        /\ proc = "none"
        /\ src_pos = 0
        /\ buffer = <<>>
        /\ windows = <<>>
        /\ calls = <<>>
        /\ files = {}
        /\ printed = <<Message("overlap_must_be_smaller")>>

\* chunk 2.0 s with overlap 2.0 s, rejected
C13_Witness ==
    /\ Streaming
    /\ chunk_seconds = 2 * TicksPerSecond
    /\ overlap_seconds = chunk_seconds
    /\ pc = "exit_1"
    /\ proc = "none"

\* C14: the stop flag is unset when the session is created and until a stop()
\* call; once set it stays set for the rest of the session, whatever is called,
\* stop() again included.
C14_StopFlagIsALatch ==
    [][/\ pc \in {"main", "streaming_start", "clip_start"} => ~stop_flag'
       /\ stop_flag => stop_flag'
       /\ (~stop_flag /\ stop_flag') =>
             /\ SessionState \notin {"Idle", "Rejected"}
             /\ UNCHANGED pc]_vars

\* the flag was set before the source ended and is still set when the
\* session has Stopped
C14_Witness ==
    /\ Streaming
    /\ stop_flag
    /\ SessionState = "Stopped"
    /\ src_pos < MaxStream
    /\ Len(windows) < MaxWindows

\* r is t without its leading and trailing whitespace
IsTrimmed(r, t) ==
    /\ r # <<>> => (r[1] \notin Whitespace /\ r[Len(r)] \notin Whitespace)
    /\ \E a \in 0..Len(t) :
          /\ \A i \in 1..a : t[i] \in Whitespace
          /\ a + Len(r) <= Len(t)
          /\ \A i \in 1..Len(r) : t[a + i] = r[i]
          /\ \A i \in (a + Len(r) + 1)..Len(t) : t[i] \in Whitespace

IsBlank(t) == \A i \in 1..Len(t) : t[i] \in Whitespace

\* C15: when the first argument is empty or whitespace only, the result is
\* the second argument trimmed; when the second is empty or whitespace only,
\* the result is the first trimmed; merge("", "hello world") and
\* merge("hello world", "") are "hello world".
C15_EmptyArgumentIdentities ==
    pc = "merge_return" =>
        /\ IsBlank(prev) => IsTrimmed(merged, new)
        /\ IsBlank(new) => IsTrimmed(merged, prev)
        /\ (prev = <<>> /\ new = HelloWorld) => merged = HelloWorld
        /\ (prev = HelloWorld /\ new = <<>>) => merged = HelloWorld

\* a whitespace-only first argument and a second argument that trimming
\* shortens at both ends
C15_Witness ==
    /\ pc = "merge_return"
    /\ prev # <<>>
    /\ IsBlank(prev)
    /\ Len(new) >= 3
    /\ new[1] \in Whitespace
    /\ new[Len(new)] \in Whitespace
    /\ merged # <<>>
    /\ Len(merged) < Len(new) - 1
    /\ IsTrimmed(merged, new)

\* C16: when every read and every recognition call returns and the capture
\* process exits once terminated, a streaming session whose stop flag is set
\* while Running, or that has left Running at the end of the stream,
\* eventually is Stopped; it goes Running, Draining, Stopped in that order and
\* never comes back to Running.
C16_StopLeadsToStopped ==
    /\ (Streaming /\ SessionState = "Running" /\ stop_flag) ~> (SessionState = "Stopped")
    /\ (Streaming /\ SessionState = "Draining") ~> (SessionState = "Stopped")
    /\ [][Streaming =>
            /\ SessionState = "Running" => SessionState' \in {"Running", "Draining"}
            /\ SessionState = "Draining" => SessionState' \in {"Draining", "Stopped"}
            /\ SessionState = "Stopped" => SessionState' = "Stopped"]_vars

\* distance between the starts of two consecutive windows
Stride == chunk_bytes - overlap_bytes

\* C17: the i-th window cut (i = 0, 1, ...) is the stream bytes
\* [i*stride, i*stride + chunk_bytes), whatever the sizes of the reads; so each
\* window starts with the previous window's last overlap_bytes bytes, and the
\* buffer holds, in order, every byte delivered from the start of the next
\* window on.
C17_WindowsCoverTheStream ==
    Streaming =>
        /\ \A i \in 1..Len(windows) :
              windows[i] = Bytes((i - 1) * Stride, (i - 1) * Stride + chunk_bytes)
        /\ \A i \in 2..Len(windows) : \A j \in 1..overlap_bytes :
              windows[i][j] = windows[i - 1][Stride + j]
        /\ SessionState \in {"Running", "Draining", "Stopped", "Aborted"} =>
              buffer = Bytes(Len(windows) * Stride, src_pos)

\* three windows that overlap, cut from a stream that was not read in
\* window-sized pieces
C17_Witness ==
    /\ Streaming
    /\ Len(windows) = 3
    /\ overlap_bytes > 0
    /\ Stride > 0
    /\ chunk_bytes > READ_CHUNK_BYTES
    /\ windows[3][1] = 2 * Stride
    /\ windows[3][1] = windows[2][Stride + 1]

\* the buffer is short of a window whenever the loop comes back to its
\* condition, and never longer than a window and a read
BufferStaysBounded ==
    /\ pc' = "loop" => Len(buffer') < chunk_bytes
    /\ pc = "read" => Len(Appended) <= chunk_bytes + READ_CHUNK_BYTES
    /\ Len(buffer') <= chunk_bytes + READ_CHUNK_BYTES

\* C19 as stated: for every policy with 0 <= overlap_bytes < chunk_bytes and
\* reads of at most READ_CHUNK_BYTES bytes, the buffer holds fewer than
\* chunk_bytes bytes at the end of every loop iteration and never more than
\* chunk_bytes + READ_CHUNK_BYTES.
C19_BufferBoundedForValidPolicy ==
    [][(Streaming /\ SessionState = "Running" /\ overlap_bytes < chunk_bytes) =>
          BufferStaysBounded]_vars

\* C19, amended: the same for every policy whose stride chunk_bytes -
\* overlap_bytes is at least READ_CHUNK_BYTES (one cut per read then removes
\* at least what the read added).
C19_BufferBoundedForWideStride ==
    [][(Streaming /\ SessionState = "Running" /\ Stride >= READ_CHUNK_BYTES) =>
          BufferStaysBounded]_vars

\* back at the loop condition after two overlapping windows, with a stride
\* of at least a read and audio left in the buffer
C19_Witness ==
    /\ Streaming
    /\ pc = "loop"
    /\ Stride >= READ_CHUNK_BYTES
    /\ overlap_bytes > 0
    /\ Len(windows) >= 2
    /\ buffer # <<>>
    /\ Len(buffer) < chunk_bytes

\* C20 as stated: merging the same fragment a second time changes no word,
\* whatever the number of words of the fragment.
C20_RemergeChangesNothing ==
    pc = "merge_again_return" => split(remerged) = split(merged)

\* C20, amended: merging the same fragment a second time changes no word
\* when the fragment has at most 6 words.
C20_RemergeOfShortFragmentChangesNothing ==
    (pc = "merge_again_return" /\ Len(N) <= 6) => split(remerged) = split(merged)

\* a 6-word fragment merged twice into a transcript it overlaps in part
C20_Witness ==
    /\ pc = "merge_again_return"
    /\ Len(N) = 6
    /\ P # <<>>
    /\ Len(split(merged)) > Len(N)
    /\ Len(split(merged)) < Len(P) + Len(N)
    /\ split(remerged) = split(merged)

IsPrefix(a, b) == Len(a) <= Len(b) /\ SubSeq(b, 1, Len(a)) = a

\* the k merge_text matches: the largest overlap of at most 6 words, else 0
Matched(ps, ns) ==
    IF Overlaps(ps, ns, 6) = {} THEN 0 ELSE Largest(Overlaps(ps, ns, 6))

\* the reports that show the transcript
TranscriptReports == Reports("partial") \cup Reports("final")

\* C18: the words of merge_text(P, N) begin with the words of P and number
\* |P| + |N| - k for the matched k in 0..6; in a streaming session no step
\* removes or changes a word of the transcript, and every transcript reported
\* earlier is a word-prefix of every transcript reported later.
C18_TranscriptOnlyGrows ==
    [][/\ pc' = "merge_return" =>
             LET ps == P
                 ns == N
                 k == Matched(ps, ns)
                 ms == split(merged')
             IN  /\ IsPrefix(ps, ms)
                 /\ k \in 0..6
                 /\ Len(ms) = Len(ps) + Len(ns) - k
       /\ (Streaming' /\ confirmed_text' # confirmed_text) =>
             IsPrefix(split(confirmed_text), split(confirmed_text'))
       /\ (Streaming' /\ printed' # printed) =>
             /\ IsPrefix(printed, printed')
             /\ \A i \in TranscriptReports' : \A j \in TranscriptReports' :
                   i <= j => IsPrefix(split(printed'[i].text), split(printed'[j].text))]_vars

\* a stopped session whose reports grew from one to the next, a later
\* fragment overlapping the transcript before it
C18_Witness ==
    /\ Streaming
    /\ pc = "done"
    /\ Len(fragments) >= 3
    /\ \E i \in 2..Len(fragments) :
          Matched(split(LeftFold(SubSeq(fragments, 1, i - 1))), split(strip(fragments[i]))) >= 1
    /\ \A i \in 1..(Len(printed) - 2) :
          /\ IsPrefix(split(printed[i].text), split(printed[i + 1].text))
          /\ Len(split(printed[i].text)) < Len(split(printed[i + 1].text))
    /\ printed[Len(printed)].kind = "final"

====
